---- MODULE Spec2Model ----
(***************************************************************************)
(* SmartClassNotes: NotesEditor (title derivation, content stripping for   *)
(* PDF export and HTML preview) and AppMain (step guards on load, popstate *)
(* handling, step-to-history sync).                                        *)
(*                                                                         *)
(* Text is a sequence of one-character strings.  Two characters stand for  *)
(* whole literals of the source: "T" is the word matched by T[íi]tulo and  *)
(* "R" is a word of the reserved list (Resumen, Conceptos, ...).  "a" and  *)
(* "b" are ordinary letters.                                               *)
(***************************************************************************)
EXTENDS Integers, Sequences, FiniteSets, TLC

VARIABLES
    \* ---- store (shared session state) ----
    step,             \* store.step
    editedNotes,      \* store.editedNotes (text)
    transcription,    \* store.transcription (text)
    processingState,  \* store.processingState
    title,            \* store.title (<<>> when unset)
    file,             \* store.file: NoFile or [name |-> text]
    \* ---- NotesEditor component ----
    showTranscript,   \* useState(false)
    downloading,      \* useState(false)
    downloaded,       \* useState(false)
    pendingExport,    \* the 300 ms export timers that are armed, oldest first
    exports,          \* calls of generatePdf by export timers since the last accepted click
    pdfCall,          \* arguments of the last generatePdf call, or NoCall
    preview,          \* result of the last render: derived title and preview body
    \* ---- AppMain component and the browser ----
    hist,             \* session history: sequence of entries [step, url]
    hidx,             \* index of the current history entry
    pc,               \* position of AppMain's mount effects
    loadStep,         \* step read by the first render (closure of the effects)
    renderedStep,     \* step of the last render whose sync effect has run
    listening,        \* handlePopState is registered on window
    popTarget,        \* e.state?.step of the last popstate event
    last,             \* the handler that ran last
    error,            \* store.error: NoError or a message
    errorSeen,        \* value of error the auto-dismiss effect last ran for
    errorTimer        \* message the pending 5 s timer was armed for, or "none"

storeVars  == <<step, editedNotes, transcription, processingState, title, file>>
editorVars == <<showTranscript, downloading, downloaded, pendingExport, exports, pdfCall, preview>>
errorVars  == <<error, errorSeen, errorTimer>>
appVars    == <<hist, hidx, pc, loadStep, renderedStep, listening, popTarget, last, errorVars>>
vars       == <<storeVars, editorVars, appVars>>

\* ------------------------------------------------------------------ bounds
MaxLines == 3      \* lines of the notes text drawn by Init
MaxHist  == 4      \* history entries kept by the model
MaxPending == 2    \* export timers the model lets be armed at once

\* ------------------------------------------------------------ text helpers
NL == "\n"
SP == " "

\* \s of the regular expressions, over the model's characters
IsWs(c) == c \in {SP, NL}

Max(S) == CHOOSE x \in S : \A y \in S : y <= x
Min(S) == CHOOSE x \in S : \A y \in S : x <= y

\* s.substring(i-1, j) ; empty when j < i
Sub(s, i, j) == IF j < i THEN <<>> ELSE SubSeq(s, i, j)

\* String.prototype.trim
Trim(s) ==
    LET nz == {i \in 1..Len(s) : ~IsWs(s[i])}
    IN  IF nz = {} THEN <<>> ELSE SubSeq(s, Min(nz), Max(nz))

\* s.replace(/\*\*/g, '') : every non-overlapping "**", left to right
RECURSIVE StripBold(_)
StripBold(s) ==
    IF Len(s) = 0 THEN <<>>
    ELSE IF Len(s) >= 2 /\ s[1] = "*" /\ s[2] = "*" THEN StripBold(Sub(s, 3, Len(s)))
    ELSE <<s[1]>> \o StripBold(Tail(s))

\* index of the last character of the run [^\n]+ that starts at i
LineEnd(s, i) ==
    LET nls == {k \in i..Len(s) : s[k] = NL}
    IN  IF nls = {} THEN Len(s) ELSE Min(nls) - 1

\* index of the last character of the (possibly empty) run \n* that starts at i
NlRunEnd(s, i) ==
    LET non == {k \in i..Len(s) : s[k] # NL}
    IN  IF non = {} THEN Len(s) ELSE Min(non) - 1

\* ^ under the m flag: start of input or just after a line terminator
AtLineStart(s, p) == p = 1 \/ (p > 1 /\ s[p-1] = NL)

\* the literal "## T[íi]tulo" at position p
TituloHead == <<"#", "#", SP, "T">>
HasTituloHead(s, p) ==
    /\ p + Len(TituloHead) - 1 <= Len(s)
    /\ SubSeq(s, p, p + Len(TituloHead) - 1) = TituloHead

\* \s*\n+([^\n]+) after a heading that ends at h: the positions c where the
\* capture can start (everything from h+1 to c-1 is whitespace, c-1 is a
\* newline and c is no newline).  Greedy \s* makes the engine take the largest.
TituloCaptureStarts(s, h) ==
    {c \in h+2..Len(s) :
        /\ \A i \in h+1..c-1 : IsWs(s[i])
        /\ s[c-1] = NL
        /\ s[c] # NL}

\* positions where /^## T[íi]tulo\s*\n+([^\n]+)/m matches
TituloMatches(s) ==
    {p \in 1..Len(s) :
        /\ AtLineStart(s, p)
        /\ HasTituloHead(s, p)
        /\ TituloCaptureStarts(s, p + Len(TituloHead) - 1) # {}}

\* editedNotes.match(/^## T[íi]tulo\s*\n+([^\n]+)/m): the leftmost match, as
\* [from, capFrom, capTo]; NoMatch when there is none
NoMatch == [from |-> 0, capFrom |-> 0, capTo |-> 0]
MatchTitulo(s) ==
    IF TituloMatches(s) = {} THEN NoMatch
    ELSE LET p == Min(TituloMatches(s))
             c == Max(TituloCaptureStarts(s, p + Len(TituloHead) - 1))
         IN  [from |-> p, capFrom |-> c, capTo |-> LineEnd(s, c)]

\* s.replace(/^## T[íi]tulo\s*\n+[^\n]+\n*/m, '') : the first match only
RemoveTitulo(s) ==
    LET m == MatchTitulo(s)
    IN  IF m = NoMatch THEN s
        ELSE Sub(s, 1, m.from - 1) \o Sub(s, NlRunEnd(s, m.capTo + 1) + 1, Len(s))

\* /^\s*#{1,2}\s+([^\n]+)/ (no m flag: anchored at the start of the input).
\* The leading \s* takes the whole whitespace prefix, #{1,2} one or two '#',
\* \s+ at least one whitespace, and the capture starts at the largest c that
\* leaves it one character that is no newline.
LeadWsEnd(s) ==
    LET non == {k \in 1..Len(s) : ~IsWs(s[k])}
    IN  IF non = {} THEN Len(s) ELSE Min(non) - 1
HashCount(s, p) ==
    IF p <= Len(s) /\ s[p] = "#"
    THEN (IF p + 1 <= Len(s) /\ s[p+1] = "#" THEN 2 ELSE 1)
    ELSE 0
FirstLineCaptureStarts(s) ==
    LET p == LeadWsEnd(s) + 1
        n == HashCount(s, p)
        r == p + n            \* first character after the hashes
    IN  IF n = 0 THEN {}
        ELSE {c \in r+1..Len(s) :
                /\ \A i \in r..c-1 : IsWs(s[i])
                /\ s[c] # NL}
MatchFirstLine(s) ==
    IF FirstLineCaptureStarts(s) = {} THEN NoMatch
    ELSE LET c == Max(FirstLineCaptureStarts(s))
         IN  [from |-> 1, capFrom |-> c, capTo |-> LineEnd(s, c)]

\* s.replace(/^\s*#{1,2}\s+[^\n]+\n*/, '')
RemoveFirstLine(s) ==
    LET m == MatchFirstLine(s)
    IN  IF m = NoMatch THEN s
        ELSE Sub(s, NlRunEnd(s, m.capTo + 1) + 1, Len(s))

\* reserved.some(r => candidate.includes(r))
HasReserved(candidate) == \E i \in 1..Len(candidate) : candidate[i] = "R"

\* name.replace(/\.[^.]+$/, '')
DropExtension(name) ==
    LET dots == {i \in 1..Len(name) : name[i] = "."}
    IN  IF dots # {} /\ Max(dots) < Len(name)
        THEN Sub(name, 1, Max(dots) - 1)
        ELSE name

NoFile == [name |-> <<"?">>, present |-> FALSE]
Notes  == <<"N", "o", "t", "e", "s">>

\* file?.name?.replace(/\.[^.]+$/, '') || 'Notes'
FileTitle(f) ==
    IF f.present /\ DropExtension(f.name) # <<>> THEN DropExtension(f.name) ELSE Notes


\* ------------------------------------------------------------ NotesEditor
Capture(s, m) == Sub(s, m.capFrom, m.capTo)

\* mutant of derivedTitle: the first-heading rule is tried before the Título rule
derivedTitle_HeadingFirst(t, notes, f) ==
    IF t # <<>> THEN t
    ELSE IF /\ MatchFirstLine(notes) # NoMatch
            /\ ~HasReserved(Trim(Capture(notes, MatchFirstLine(notes))))
    THEN StripBold(Trim(Capture(notes, MatchFirstLine(notes))))
    ELSE IF MatchTitulo(notes) # NoMatch
    THEN StripBold(Trim(Capture(notes, MatchTitulo(notes))))
    ELSE FileTitle(f)

\* derivedTitle (useMemo over title, editedNotes, file)
derivedTitle(t, notes, f) ==
    IF t # <<>> THEN t
    ELSE IF MatchTitulo(notes) # NoMatch
    THEN StripBold(Trim(Capture(notes, MatchTitulo(notes))))
    ELSE IF /\ MatchFirstLine(notes) # NoMatch
            /\ ~HasReserved(Trim(Capture(notes, MatchFirstLine(notes))))
    THEN StripBold(Trim(Capture(notes, MatchFirstLine(notes))))
    ELSE FileTitle(f)

\* body of the setTimeout callback of handleDownload up to generatePdf:
\* the content handed to the PDF generator
DownloadContent(t, notes, trans, showT, derived) ==
    LET finalContent == IF showT THEN trans ELSE notes
        m            == MatchFirstLine(finalContent)
        cleaned      ==
            IF RemoveTitulo(finalContent) # finalContent THEN RemoveTitulo(finalContent)
            ELSE IF m # NoMatch /\ StripBold(Trim(Capture(finalContent, m))) = derived
            THEN RemoveFirstLine(finalContent)
            ELSE finalContent
    IN  IF t = <<>> /\ ~showT THEN Trim(cleaned) ELSE finalContent

\* onClick of the View PDF button: the content handed to the PDF generator
ViewContent(t, notes, trans, showT, derived) ==
    LET finalContent == IF showT THEN trans ELSE notes
        first        == Trim(RemoveTitulo(finalContent))
        m            == MatchFirstLine(notes)
    IN  IF t = <<>> /\ ~showT
        THEN IF /\ first = Trim(notes)
                /\ m # NoMatch
                /\ StripBold(Trim(Capture(notes, m))) = derived
             THEN Trim(RemoveFirstLine(notes))
             ELSE first
        ELSE finalContent

\* previewHtml: contentToRender, the notes body the renderer formats
PreviewContent(notes, derived) ==
    LET first == Trim(RemoveTitulo(notes))
        m     == MatchFirstLine(notes)
    IN  IF /\ first = Trim(notes)
           /\ m # NoMatch
           /\ StripBold(Trim(Capture(notes, m))) = derived
        THEN Trim(RemoveFirstLine(notes))
        ELSE first

\* ---- previewHtml: the replacements that turn contentToRender into HTML.
\* A tag the code inserts is one element of the text: it holds no "*" and no
\* line terminator and is matched by "." like any other character.

\* s.replace(/^prefix(.+)$/gm, open $1 close): every line that starts with
\* the prefix and goes on for at least one character
RECURSIVE LinePass(_, _, _, _)
LinePass(s, prefix, open, close) ==
    IF s = <<>> THEN <<>>
    ELSE LET e    == LineEnd(s, 1)
             line == Sub(s, 1, e)
             n    == Len(prefix)
             out  == IF Len(line) > n /\ SubSeq(line, 1, n) = prefix
                     THEN <<open>> \o Sub(line, n + 1, e) \o <<close>>
                     ELSE line
         IN  IF e = Len(s) THEN out
             ELSE out \o <<NL>> \o LinePass(Sub(s, e + 2, Len(s)), prefix, open, close)

\* n asterisks at position p
Stars(s, p, n) == p + n - 1 <= Len(s) /\ \A k \in p..p+n-1 : s[k] = "*"

\* where the closing asterisks of \*{n}(.+?)\*{n} can stand for an opening at p
SpanCloses(s, p, n) ==
    {j \in p+n+1..Len(s) : Stars(s, j, n) /\ \A k \in p+n..j-1 : s[k] # NL}

\* s.replace(/\*{n}(.+?)\*{n}/g, open $1 close): leftmost opening that has a
\* closing, shortest capture, then on from behind the match
RECURSIVE SpanPass(_, _, _, _)
SpanPass(s, n, open, close) ==
    LET starts == {p \in 1..Len(s) : Stars(s, p, n) /\ SpanCloses(s, p, n) # {}}
    IN  IF starts = {} THEN s
        ELSE LET p == Min(starts)
                 j == Min(SpanCloses(s, p, n))
             IN  Sub(s, 1, p - 1) \o <<open>> \o Sub(s, p + n, j - 1) \o <<close>>
                    \o SpanPass(Sub(s, j + n, Len(s)), n, open, close)

\* <li.*<\/li> from p: the closing tags on the same line
LiCloses(s, p) ==
    {j \in p+1..Len(s) : s[j] = "</li>" /\ \A k \in p..j : s[k] # NL}
LiAt(s, p) == p <= Len(s) /\ s[p] = "<li>" /\ LiCloses(s, p) # {}

\* last element matched by (<li.*<\/li>\n?)+ from p: greedy .* to the last
\* closing tag of the line, the line terminator if there is one, and again
LiRunEnd_OneItem(s, p) ==
    LET j == Max(LiCloses(s, p))
    IN  IF j < Len(s) /\ s[j + 1] = NL THEN j + 1 ELSE j

RECURSIVE LiRunEnd(_, _)
LiRunEnd(s, p) ==
    LET j == Max(LiCloses(s, p))
        e == IF j < Len(s) /\ s[j + 1] = NL THEN j + 1 ELSE j
    IN  IF LiAt(s, e + 1) THEN LiRunEnd(s, e + 1) ELSE e

\* s.replace(/(<li.*<\/li>\n?)+/g, <ul>$&</ul>)
RECURSIVE ListPass(_)
ListPass(s) ==
    LET starts == {p \in 1..Len(s) : LiAt(s, p)}
    IN  IF starts = {} THEN s
        ELSE LET p == Min(starts)
                 e == LiRunEnd(s, p)
             IN  Sub(s, 1, p - 1) \o <<"<ul>">> \o Sub(s, p, e) \o <<"</ul>">>
                    \o ListPass(Sub(s, e + 1, Len(s)))

\* .replace(/\n\n/g, '<br/><br/>').replace(/\n/g, '<br/>'): pairs first, the
\* rest after; either way each line terminator becomes one <br/>
BreakPass(s) == [i \in 1..Len(s) |-> IF s[i] = NL THEN "<br/>" ELSE s[i]]

\* editedNotes.startsWith('# ')
StartsWithHash1(notes) == Len(notes) >= 2 /\ notes[1] = "#" /\ notes[2] = SP

\* previewHtml
previewHtml(notes, derived) ==
    LET c0 == PreviewContent(notes, derived)
        c1 == LinePass(c0, <<"#", "#", "#", SP>>, "<h3>", "</h3>")
        c2 == LinePass(c1, <<"#", "#", SP>>, "<h2>", "</h2>")
        c3 == LinePass(c2, <<"#", SP>>, "<h1>", "</h1>")
        c4 == SpanPass(c3, 2, "<strong>", "</strong>")
        c5 == SpanPass(c4, 1, "<em>", "</em>")
        c6 == LinePass(c5, <<"-", SP>>, "<li>", "</li>")
        c7 == ListPass(c6)
        html == BreakPass(c7)
    IN  IF ~StartsWithHash1(notes)
        THEN <<"<h1 title>">> \o derived \o <<"</h1>">> \o html
        ELSE html

NoCall    == [mode |-> "none", title |-> <<>>, content |-> <<>>]
NoRender  == [rendered |-> FALSE, title |-> <<>>, content |-> <<>>, html |-> <<>>]
NoPending == <<>>

\* a render of NotesEditor: both memos are recomputed
Render ==
    /\ ~preview.rendered
    /\ preview' = [rendered |-> TRUE,
                   title    |-> derivedTitle(title, editedNotes, file),
                   content  |-> PreviewContent(editedNotes, derivedTitle(title, editedNotes, file)),
                   html     |-> previewHtml(editedNotes, derivedTitle(title, editedNotes, file))]
    /\ UNCHANGED <<storeVars, appVars, showTranscript, downloading, downloaded,
                   pendingExport, exports, pdfCall>>

\* handleDownload: the click itself (the button is disabled while downloading)
\* what the callback handed to setTimeout computes from the values of the
\* render the click happened in: the arguments of its generatePdf call
ExportClosure ==
    [title   |-> derivedTitle(title, editedNotes, file),
     content |-> DownloadContent(title, editedNotes, transcription, showTranscript,
                                 derivedTitle(title, editedNotes, file))]

handleDownload_NotDisabled ==
    /\ preview.rendered
    /\ Len(pendingExport) < MaxPending
    /\ downloading' = TRUE
    /\ pendingExport' = Append(pendingExport, ExportClosure)
    /\ exports' = 0
    /\ UNCHANGED <<storeVars, appVars, showTranscript, downloaded, pdfCall, preview>>

handleDownload ==
    /\ preview.rendered
    /\ ~downloading
    /\ Len(pendingExport) < MaxPending
    /\ downloading' = TRUE
    /\ pendingExport' = Append(pendingExport, ExportClosure)
    /\ exports' = 0
    /\ UNCHANGED <<storeVars, appVars, showTranscript, downloaded, pdfCall, preview>>

\* the 300 ms timer of handleDownload fires: the callback runs on the values
\* its closure holds
ExportTimer ==
    /\ pendingExport # <<>>
    /\ pdfCall' = [mode    |-> "download",
                   title   |-> Head(pendingExport).title,
                   content |-> Head(pendingExport).content]
    /\ downloading' = FALSE
    /\ downloaded' = TRUE
    /\ pendingExport' = Tail(pendingExport)
    /\ exports' = exports + 1
    /\ UNCHANGED <<storeVars, appVars, showTranscript, preview>>

\* the 3000 ms timer armed by the export clears the confirmation
DownloadedTimer ==
    /\ downloaded
    /\ downloaded' = FALSE
    /\ UNCHANGED <<storeVars, appVars, showTranscript, downloading, pendingExport,
                   exports, pdfCall, preview>>

\* onClick of the View PDF button
ViewPdf ==
    /\ preview.rendered
    /\ pdfCall' = [mode    |-> "blob",
                   title   |-> derivedTitle(title, editedNotes, file),
                   content |-> ViewContent(title, editedNotes, transcription,
                                           showTranscript,
                                           derivedTitle(title, editedNotes, file))]
    /\ UNCHANGED <<storeVars, appVars, showTranscript, downloading, downloaded,
                   pendingExport, exports, preview>>

\* onClick of the transcript toggle
ToggleTranscript ==
    /\ preview.rendered
    /\ showTranscript' = ~showTranscript
    /\ UNCHANGED <<storeVars, appVars, downloading, downloaded, pendingExport,
                   exports, pdfCall, preview>>

\* ---- inputs of the NotesEditor specification
LineSet ==
    { <<"#", "#", SP, "T">>,          \* ## Título
      <<"#", SP, "a">>,               \* # a
      <<"#", "#", SP, "R">>,          \* ## Resumen
      <<>>,                           \* blank line
      <<SP>>,                         \* whitespace-only line
      <<"#">>,                        \* a bare hash
      <<SP, "*", "*", "b", "*", "*">> }   \* " **b**": indented text in bold

RECURSIVE Texts(_)
Texts(n) ==
    IF n = 0 THEN {}
    ELSE IF n = 1 THEN LineSet
    ELSE Texts(n-1) \cup {t \o <<NL>> \o l : t \in Texts(n-1), l \in LineSet}

Files  == { NoFile,
            [name |-> <<"f", ".", "x">>, present |-> TRUE],
            [name |-> <<".", "x">>, present |-> TRUE],
            [name |-> <<"R", ".", "x">>, present |-> TRUE] }   \* Resumen.x
\* (title, file) pairs: no explicit title with every file, and an explicit one
TitleFiles == { <<(<<>>), f>> : f \in Files }
                \cup { << <<"a">>, [name |-> <<"f", ".", "x">>, present |-> TRUE] >> }
Steps  == {"upload", "transcribing", "ai-processing", "editor"}

InitNotes ==
    /\ step = "editor"
    /\ editedNotes \in Texts(MaxLines)
    /\ transcription = <<"#", SP, "b">>
    /\ processingState = "done"
    /\ \E tf \in TitleFiles : title = tf[1] /\ file = tf[2]
    /\ showTranscript = FALSE
    /\ downloading = FALSE
    /\ downloaded = FALSE
    /\ pendingExport = NoPending
    /\ exports = 0
    /\ pdfCall = NoCall
    /\ preview = NoRender
    /\ hist = << [step |-> "editor", url |-> "editor"] >>
    /\ hidx = 1
    /\ pc = "run"
    /\ loadStep = "editor"
    /\ renderedStep = "editor"
    /\ listening = TRUE
    /\ popTarget = "none"
    /\ last = "none"
    /\ error = "null"
    /\ errorSeen = "null"
    /\ errorTimer = "none"

NextNotes ==
    \/ Render
    \/ handleDownload
    \/ ExportTimer
    \/ DownloadedTimer
    \/ ViewPdf

SpecNotes == InitNotes /\ [][NextNotes]_vars

\* the editor with its download button, transcript toggle and timers; armed
\* timers always fire
MaxNotesLen == 4
InitDownload ==
    /\ InitNotes
    /\ Len(editedNotes) <= MaxNotesLen

NextDownload ==
    \/ Render
    \/ handleDownload
    \/ ExportTimer
    \/ DownloadedTimer
    \/ ViewPdf
    \/ ToggleTranscript

SpecDownload ==
    /\ InitDownload
    /\ [][NextDownload]_vars
    /\ WF_vars(ExportTimer)
    /\ WF_vars(DownloadedTimer)


\* ---- inputs of the preview specification: notes made of list items, plain
\* lines, blank lines and headings; every start renders once
MaxListLines == 3
ListLineSet ==
    { <<"-", SP, "a">>,               \* - a
      <<"-", SP, "*", "b", "*">>,     \* - *b*
      <<>>,                           \* blank line
      <<"a">>,                        \* plain text
      <<"#", "#", SP, "a">> }         \* ## a

RECURSIVE ListTexts(_)
ListTexts(n) ==
    IF n = 0 THEN {}
    ELSE IF n = 1 THEN ListLineSet
    ELSE ListTexts(n-1) \cup {t \o <<NL>> \o l : t \in ListTexts(n-1), l \in ListLineSet}

InitPreview ==
    /\ step = "editor"
    /\ editedNotes \in ListTexts(MaxListLines)
    /\ transcription = <<"#", SP, "b">>
    /\ processingState = "done"
    /\ title = <<>>
    /\ file = NoFile
    /\ showTranscript = FALSE
    /\ downloading = FALSE
    /\ downloaded = FALSE
    /\ pendingExport = NoPending
    /\ exports = 0
    /\ pdfCall = NoCall
    /\ preview = NoRender
    /\ hist = << [step |-> "editor", url |-> "editor"] >>
    /\ hidx = 1
    /\ pc = "run"
    /\ loadStep = "editor"
    /\ renderedStep = "editor"
    /\ listening = TRUE
    /\ popTarget = "none"
    /\ last = "none"
    /\ error = "null"
    /\ errorSeen = "null"
    /\ errorTimer = "none"

SpecPreview == InitPreview /\ [][Render]_vars

\* ---------------------------------------------------------------- AppMain
\* ---- the shared error message and its toast
NoError   == "null"
ErrorMsgs == {"e1", "e2"}

\* history.state of an entry that carries none reads step "none"
Entry(s)  == [step |-> s, url |-> s]
NullEntry == [step |-> "none", url |-> ""]

Active == {"compressing", "uploading", "transcribing"}
ProcStates == Active \cup {"idle", "done"}

\* history.replaceState / history.pushState on the session history
ReplaceState(h, i, e) == [h EXCEPT ![i] = e]
PushState(h, i, e)    == Sub(h, 1, i) \o <<e>>

\* mutant of GuardOutcome: the invalid-state guard forgets 'transcribing'
GuardOutcome_NoTranscribing(currentStep, hasData, hasTrans, processingSt, histStep) ==
    LET isProcessing == processingSt \in Active
    IN  IF isProcessing /\ currentStep = "upload"
        THEN [step   |-> IF processingSt = "done" THEN "ai-processing" ELSE "transcribing",
              entry  |-> IF processingSt = "done" THEN "ai-processing" ELSE "transcribing",
              listen |-> FALSE]
        ELSE IF hasData /\ currentStep = "upload"
        THEN [step |-> "editor", entry |-> "editor", listen |-> TRUE]
        ELSE IF /\ ~hasData /\ ~hasTrans /\ ~isProcessing
                /\ currentStep \in {"ai-processing", "editor"}
        THEN [step |-> "upload", entry |-> "upload", listen |-> TRUE]
        ELSE IF histStep = "none"
        THEN [step |-> currentStep, entry |-> currentStep, listen |-> TRUE]
        ELSE [step |-> currentStep, entry |-> "keep", listen |-> TRUE]

\* mutant of GuardOutcome: the processing guard stores processingState as the step
GuardOutcome_StoresProcessingState(currentStep, hasData, hasTrans, processingSt, histStep) ==
    LET isProcessing == processingSt \in Active
    IN  IF isProcessing /\ currentStep = "upload"
        THEN [step |-> processingSt, entry |-> processingSt, listen |-> FALSE]
        ELSE IF hasData /\ currentStep = "upload"
        THEN [step |-> "editor", entry |-> "editor", listen |-> TRUE]
        ELSE IF /\ ~hasData /\ ~hasTrans /\ ~isProcessing
                /\ currentStep \in {"ai-processing", "editor", "transcribing"}
        THEN [step |-> "upload", entry |-> "upload", listen |-> TRUE]
        ELSE IF histStep = "none"
        THEN [step |-> currentStep, entry |-> currentStep, listen |-> TRUE]
        ELSE [step |-> currentStep, entry |-> "keep", listen |-> TRUE]

\* the guards of the mount effect: the step they leave in the store, the entry
\* they replace the current history entry with ("keep": none), and whether the
\* effect goes on to register handlePopState (the first guard returns early)
GuardOutcome(currentStep, hasData, hasTrans, processingSt, histStep) ==
    LET isProcessing == processingSt \in Active
    IN  IF isProcessing /\ currentStep = "upload"
        THEN [step   |-> IF processingSt = "done" THEN "ai-processing" ELSE "transcribing",
              entry  |-> IF processingSt = "done" THEN "ai-processing" ELSE "transcribing",
              listen |-> FALSE]
        ELSE IF hasData /\ currentStep = "upload"
        THEN [step |-> "editor", entry |-> "editor", listen |-> TRUE]
        ELSE IF /\ ~hasData /\ ~hasTrans /\ ~isProcessing
                /\ currentStep \in {"ai-processing", "editor", "transcribing"}
        THEN [step |-> "upload", entry |-> "upload", listen |-> TRUE]
        ELSE IF histStep = "none"
        THEN [step |-> currentStep, entry |-> currentStep, listen |-> TRUE]
        ELSE [step |-> currentStep, entry |-> "keep", listen |-> TRUE]

\* the mount effect "Browser navigation (History API) & Guards"
LoadGuard ==
    /\ pc = "load"
    /\ LET g == GuardOutcome(step, editedNotes # <<>>, transcription # <<>>,
                             processingState, hist[hidx].step)
       IN  /\ step' = g.step
           /\ hist' = IF g.entry = "keep" THEN hist
                      ELSE ReplaceState(hist, hidx, Entry(g.entry))
           /\ listening' = g.listen
    /\ pc' = "sync"
    /\ last' = "guard"
    /\ UNCHANGED <<editedNotes, transcription, processingState, title, file,
                   editorVars, errorVars, hidx, loadStep, renderedStep, popTarget>>

\* body of the effect "Sync step to history" for the step value s of its render
SyncHistory(h, i, s) ==
    IF h[i].step # s THEN [hist |-> PushState(h, i, Entry(s)), hidx |-> i + 1]
    ELSE [hist |-> h, hidx |-> i]

\* the sync effect of the mount commit: it runs after the guard effect and
\* reads the step of the first render
MountSync ==
    /\ pc = "sync"
    /\ hist' = SyncHistory(hist, hidx, loadStep).hist
    /\ hidx' = SyncHistory(hist, hidx, loadStep).hidx
    /\ renderedStep' = loadStep
    /\ pc' = "run"
    /\ last' = "mountsync"
    /\ UNCHANGED <<storeVars, editorVars, errorVars, loadStep, listening, popTarget>>

\* a re-render after the store step changed, and its sync effect
SyncEffect ==
    /\ pc = "run"
    /\ renderedStep # step
    /\ (hist[hidx].step # step => hidx < MaxHist)
    /\ hist' = SyncHistory(hist, hidx, step).hist
    /\ hidx' = SyncHistory(hist, hidx, step).hidx
    /\ renderedStep' = step
    /\ last' = "sync"
    /\ UNCHANGED <<storeVars, editorVars, errorVars, pc, loadStep, listening, popTarget>>

\* handlers run to completion: the next event is taken once the effects of
\* the last render have run
Idle == pc = "run" /\ renderedStep = step

\* mutant of PopOutcome: the editor-without-notes guard is missing
PopOutcome_NoEditorGuard(s, storeHasData) ==
    IF s # "none"
    THEN IF storeHasData /\ s \in {"transcribing", "ai-processing"}
         THEN [step |-> "editor", op |-> "push"]
         ELSE [step |-> s, op |-> "none"]
    ELSE [step |-> "upload", op |-> "none"]

\* handlePopState: the step it stores and what it does to the history
PopOutcome(s, storeHasData) ==
    IF s # "none"
    THEN IF storeHasData /\ s \in {"transcribing", "ai-processing"}
         THEN [step |-> "editor", op |-> "push"]
         ELSE IF s = "editor" /\ ~storeHasData
         THEN [step |-> "upload", op |-> "replace"]
         ELSE [step |-> s, op |-> "none"]
    ELSE [step |-> "upload", op |-> "none"]

\* the user goes back (d = -1) or forward (d = 1): the browser makes the
\* neighbouring entry current and fires popstate
PopState(d) ==
    /\ Idle
    /\ hidx + d \in 1..Len(hist)
    /\ (listening /\ PopOutcome(hist[hidx + d].step, editedNotes # <<>>).op = "push"
            => hidx + d < MaxHist)
    /\ popTarget' = hist[hidx + d].step
    /\ IF listening
       THEN LET o == PopOutcome(hist[hidx + d].step, editedNotes # <<>>)
            IN  /\ step' = o.step
                /\ hist' = CASE o.op = "push"    -> PushState(hist, hidx + d, Entry(o.step))
                             [] o.op = "replace" -> ReplaceState(hist, hidx + d, Entry(o.step))
                             [] OTHER            -> hist
                /\ hidx' = IF o.op = "push" THEN hidx + d + 1 ELSE hidx + d
                /\ last' = "popstate"
       ELSE /\ hidx' = hidx + d
            /\ last' = "popstate-unheard"
            /\ UNCHANGED <<step, hist>>
    /\ UNCHANGED <<editedNotes, transcription, processingState, title, file,
                   editorVars, errorVars, pc, loadStep, renderedStep, listening>>

\* textarea onChange of NotesEditor: the user clears or retypes the notes
setEditedNotes(n) ==
    /\ Idle
    /\ step = "editor"
    /\ n # editedNotes
    /\ editedNotes' = n
    /\ last' = "edit"
    /\ UNCHANGED <<step, transcription, processingState, title, file, editorVars, errorVars,
                   hist, hidx, pc, loadStep, renderedStep, listening, popTarget>>

\* ---- the events of the other views (their code is outside this excerpt)
UploadComplete ==
    /\ Idle
    /\ step = "upload"
    /\ step' = "transcribing"
    /\ processingState' \in Active
    /\ last' = "event"
    /\ UNCHANGED <<editedNotes, transcription, title, file, editorVars, errorVars,
                   hist, hidx, pc, loadStep, renderedStep, listening, popTarget>>

TranscriptionComplete ==
    /\ Idle
    /\ step = "transcribing"
    /\ step' = "ai-processing"
    /\ transcription' = <<"b">>
    /\ processingState' = "done"
    /\ last' = "event"
    /\ UNCHANGED <<editedNotes, title, file, editorVars, errorVars,
                   hist, hidx, pc, loadStep, renderedStep, listening, popTarget>>

AIComplete ==
    /\ Idle
    /\ step = "ai-processing"
    /\ step' = "editor"
    /\ editedNotes' = <<"a">>
    /\ last' = "event"
    /\ UNCHANGED <<transcription, processingState, title, file, editorVars, errorVars,
                   hist, hidx, pc, loadStep, renderedStep, listening, popTarget>>

reset ==
    /\ Idle
    /\ step = "editor"
    /\ step' = "upload"
    /\ editedNotes' = <<>>
    /\ transcription' = <<>>
    /\ processingState' = "idle"
    /\ last' = "event"
    /\ UNCHANGED <<title, file, editorVars, errorVars,
                   hist, hidx, pc, loadStep, renderedStep, listening, popTarget>>

\* ---- error toast
\* a render after error changed, and the effect "Auto-dismiss errors after
\* 5s": the cleanup of its last run clears that run's timer, then a timer is
\* armed when there is a message
ErrorEffect_NoCleanup ==
    /\ errorSeen # error
    /\ errorTimer' = IF error # NoError THEN error ELSE errorTimer
    /\ errorSeen' = error
    /\ UNCHANGED <<storeVars, editorVars, hist, hidx, pc, loadStep, renderedStep,
                   listening, popTarget, last, error>>

ErrorEffect ==
    /\ errorSeen # error
    /\ errorTimer' = IF error # NoError THEN error ELSE "none"
    /\ errorSeen' = error
    /\ UNCHANGED <<storeVars, editorVars, hist, hidx, pc, loadStep, renderedStep,
                   listening, popTarget, last, error>>

\* the 5000 ms timer fires: setError(null)
ErrorTimer ==
    /\ errorSeen = error
    /\ errorTimer # "none"
    /\ error' = NoError
    /\ errorTimer' = "none"
    /\ last' = "timer"
    /\ UNCHANGED <<storeVars, editorVars, hist, hidx, pc, loadStep, renderedStep,
                   listening, popTarget, errorSeen>>

\* onClick of the toast's close button: setError(null)
DismissError ==
    /\ errorSeen = error
    /\ error # NoError
    /\ error' = NoError
    /\ last' = "dismiss"
    /\ UNCHANGED <<storeVars, editorVars, hist, hidx, pc, loadStep, renderedStep,
                   listening, popTarget, errorSeen, errorTimer>>

\* some component reports a failure: setError(m)
setError(m) ==
    /\ errorSeen = error
    /\ m # error
    /\ error' = m
    /\ last' = "seterror"
    /\ UNCHANGED <<storeVars, editorVars, hist, hidx, pc, loadStep, renderedStep,
                   listening, popTarget, errorSeen, errorTimer>>

\* the page loads with whatever session state the store restored and whatever
\* state the browser kept for the current history entry
Init ==
    /\ step \in Steps
    /\ editedNotes \in { <<>>, <<"a">> }
    /\ transcription \in { <<>>, <<"b">> }
    /\ processingState \in ProcStates
    /\ title = <<>>
    /\ file = NoFile
    /\ showTranscript = FALSE
    /\ downloading = FALSE
    /\ downloaded = FALSE
    /\ pendingExport = NoPending
    /\ exports = 0
    /\ pdfCall = NoCall
    /\ preview = NoRender
    /\ \E e \in {NullEntry} \cup {Entry(s) : s \in Steps} :
          hist \in { <<e>>, <<NullEntry, e>> }
    /\ hidx = Len(hist)
    /\ pc = "load"
    /\ loadStep = step
    /\ renderedStep = step
    /\ listening = FALSE
    /\ popTarget = "none"
    /\ last = "none"
    /\ error = NoError
    /\ errorSeen = NoError
    /\ errorTimer = "none"

Next ==
    \/ LoadGuard
    \/ MountSync
    \/ SyncEffect
    \/ \E d \in {-1, 1} : PopState(d)
    \/ \E n \in { <<>>, <<"a">> } : setEditedNotes(n)
    \/ UploadComplete
    \/ TranscriptionComplete
    \/ AIComplete
    \/ reset

Spec == Init /\ [][Next]_vars

\* AppMain mounts (guard, sync and auto-dismiss effects, in whatever error
\* state the store is) and then failures are reported, dismissed and timed
\* out.  Effects always run and armed timers always fire.
InitError ==
    /\ step \in Steps
    /\ editedNotes \in { <<>>, <<"a">> }
    /\ transcription \in { <<>>, <<"b">> }
    /\ processingState \in ProcStates
    /\ title = <<>>
    /\ file = NoFile
    /\ showTranscript = FALSE
    /\ downloading = FALSE
    /\ downloaded = FALSE
    /\ pendingExport = NoPending
    /\ exports = 0
    /\ pdfCall = NoCall
    /\ preview = NoRender
    /\ hist = <<NullEntry>>
    /\ hidx = 1
    /\ pc = "load"
    /\ loadStep = step
    /\ renderedStep = step
    /\ listening = FALSE
    /\ popTarget = "none"
    /\ last = "none"
    /\ error \in {NoError} \cup ErrorMsgs
    /\ errorSeen = "unmounted"
    /\ errorTimer = "none"

NextError ==
    \/ LoadGuard
    \/ MountSync
    \/ SyncEffect
    \/ ErrorEffect
    \/ ErrorTimer
    \/ DismissError
    \/ \E m \in ErrorMsgs : setError(m)

SpecError ==
    /\ InitError
    /\ [][NextError]_vars
    /\ WF_vars(ErrorEffect)
    /\ WF_vars(ErrorTimer)

\* ================================================================ claims
\* ---- line-level vocabulary of the claims (independent of the matchers)
RECURSIVE SplitLines(_)
SplitLines(s) ==
    IF \A k \in 1..Len(s) : s[k] # NL THEN <<s>>
    ELSE LET k == CHOOSE k \in 1..Len(s) :
                     s[k] = NL /\ \A j \in 1..k-1 : s[j] # NL
         IN  <<Sub(s, 1, k-1)>> \o SplitLines(Sub(s, k+1, Len(s)))

Blank(l) == \A i \in 1..Len(l) : IsWs(l[i])

RECURSIVE LTrim(_)
LTrim(l) == IF Len(l) > 0 /\ IsWs(l[1]) THEN LTrim(Tail(l)) ELSE l

\* a line that is the heading "## Título", alone or followed by blanks
IsTituloLine(l) ==
    /\ Len(l) >= 4
    /\ l[1] = "#" /\ l[2] = "#" /\ l[3] = SP /\ l[4] = "T"
    /\ Blank(Sub(l, 5, Len(l)))

\* one or two '#', then a blank or the end of the line; and what follows them
IsHashLine(l) ==
    \/ l = <<"#">> \/ l = <<"#", "#">>
    \/ (Len(l) >= 2 /\ l[1] = "#" /\ l[2] = SP)
    \/ (Len(l) >= 3 /\ l[1] = "#" /\ l[2] = "#" /\ l[3] = SP)
AfterHashes(l) == IF Len(l) >= 2 /\ l[2] = "#" THEN Sub(l, 3, Len(l)) ELSE Sub(l, 2, Len(l))

\* a level-1 or level-2 heading with text on its line
IsHeading12(l) == IsHashLine(l) /\ ~Blank(AfterHashes(l))

\* a name without its extension (a last dot with at least one character after it)
NameSansExt(name) ==
    IF \E i \in 1..Len(name)-1 : name[i] = "." /\ \A j \in i+1..Len(name) : name[j] # "."
    THEN Sub(name, 1, Max({i \in 1..Len(name) : name[i] = "."}) - 1)
    ELSE name
FileRule(f) == IF f.present /\ NameSansExt(f.name) # <<>> THEN NameSansExt(f.name) ELSE Notes

\* C1 as stated: (a) explicit title; (b) the line following a "## Título"
\* heading, with ** removed; (c) the text of the first line when it is a
\* level-1/2 heading without a reserved word; (d) file name; (e) "Notes"
ClaimedTitle(t, notes, f) ==
    LET ls    == SplitLines(notes)
        heads == {i \in 1..Len(ls)-1 : ls[i] = TituloHead /\ ls[i+1] # <<>>}
    IN  IF t # <<>> THEN t
        ELSE IF heads # {} THEN StripBold(ls[Min(heads) + 1])
        ELSE IF IsHeading12(ls[1]) /\ ~HasReserved(AfterHashes(ls[1]))
        THEN Trim(AfterHashes(ls[1]))
        ELSE FileRule(f)

AmendedTituloTitle(ls) ==
    LET heads == {i \in 1..Len(ls) :
                    IsTituloLine(ls[i]) /\ \E j \in i+1..Len(ls) : ls[j] # <<>>}
        i0    == Min(heads)
        full  == {j \in i0+1..Len(ls) : ~Blank(ls[j])}
        some  == {j \in i0+1..Len(ls) : ls[j] # <<>>}
    IN  IF heads = {} THEN [ok |-> FALSE, text |-> <<>>]
        ELSE [ok |-> TRUE,
              text |-> StripBold(Trim(ls[IF full # {} THEN Min(full) ELSE Max(some)]))]

AmendedFirstHeading(ls) ==
    LET full  == {j \in 1..Len(ls) : ~Blank(ls[j])}
        k     == Min(full)
        l     == LTrim(ls[k])
        rest  == AfterHashes(l)
        later == {j \in k+1..Len(ls) : ~Blank(ls[j])}
        \* blank characters after the first one that follows the hashes
        tailSpace == \/ \E i \in 2..Len(rest) : rest[i] = SP
                     \/ (\E j \in k+1..Len(ls) : ls[j] # <<>>)
    IN  IF full = {} \/ ~IsHashLine(l) THEN [ok |-> FALSE, text |-> <<>>]
        ELSE IF ~Blank(rest) THEN [ok |-> TRUE, text |-> Trim(rest)]
        ELSE IF later # {} THEN [ok |-> TRUE, text |-> Trim(ls[Min(later)])]
        ELSE IF tailSpace THEN [ok |-> TRUE, text |-> <<>>]
        ELSE [ok |-> FALSE, text |-> <<>>]

AmendedTitle(t, notes, f) ==
    LET ls == SplitLines(notes)
        b  == AmendedTituloTitle(ls)
        c  == AmendedFirstHeading(ls)
    IN  IF t # <<>> THEN t
        ELSE IF b.ok THEN b.text
        ELSE IF c.ok /\ ~HasReserved(c.text) THEN StripBold(c.text)
        ELSE FileRule(f)

RECURSIVE TrimEach(_)
TrimEach(ls) == IF ls = <<>> THEN <<>> ELSE <<Trim(Head(ls))>> \o TrimEach(Tail(ls))
NotBlank(l) == ~Blank(l)
NonBlankLines(s) == TrimEach(SelectSeq(SplitLines(s), NotBlank))

IsHeadingLine(l) == Len(l) > 0 /\ l[1] = "#"
Without(q, i) == Sub(q, 1, i-1) \o Sub(q, i+1, Len(q))
HeadingLines(s) == SelectSeq(NonBlankLines(s), IsHeadingLine)

\* what C9 allows the stripping to do to the non-blank lines: nothing, drop
\* one heading line, or drop a "## Título" heading together with its title line
AllowedStrip(in, out) ==
    \/ out = in
    \/ \E i \in 1..Len(in) : IsHeadingLine(in[i]) /\ out = Without(in, i)
    \/ \E i \in 1..Len(in)-1 : in[i] = TituloHead /\ out = Without(Without(in, i+1), i)

\* C9 (as stated): the content an export hands to the PDF generator, when the
\* title is derived, is the notes with at most one heading removed (a Título
\* heading together with its title line), every other non-blank line kept in
\* order; notes without any heading come out unchanged except for trimming
C9_StripAtMostOneHeading ==
    (pdfCall.mode # "none" /\ title = <<>>) =>
        /\ AllowedStrip(NonBlankLines(editedNotes), NonBlankLines(pdfCall.content))
        /\ (HeadingLines(editedNotes) = <<>> => pdfCall.content = Trim(editedNotes))

\* C10 (as stated): with an explicit title set, the exported content and the
\* preview body both keep every heading line of the notes
C10_ExplicitTitleKeepsHeadings ==
    title # <<>> =>
        /\ (pdfCall.mode # "none" =>
                HeadingLines(pdfCall.content) = HeadingLines(editedNotes))
        /\ (preview.rendered =>
                HeadingLines(preview.content) = HeadingLines(editedNotes))


\* ---- C2..C8: AppMain
\* C2 (as stated): after every back/forward navigation to an entry recording
\* step s the store step is editor when notes exist and s is transcribing or
\* ai-processing, upload when s is editor and no notes exist, s otherwise,
\* and upload for an entry that records no step
ClaimedPopStep(s, hasData) ==
    IF s = "none" THEN "upload"
    ELSE IF hasData /\ s \in {"transcribing", "ai-processing"} THEN "editor"
    ELSE IF s = "editor" /\ ~hasData THEN "upload"
    ELSE s
C2_PopstateStep ==
    last \in {"popstate", "popstate-unheard"} =>
        step = ClaimedPopStep(popTarget, editedNotes # <<>>)

\* C3 (as stated): on load at step upload the guards send the step to
\* transcribing while processing is in progress and to ai-processing when it
\* has finished (processingState = done), replacing the current history entry
C3_ProcessingGuardTargets ==
    (last = "guard" /\ loadStep = "upload") =>
        /\ (processingState \in Active =>
                step = "transcribing" /\ hist[hidx] = [step |-> "transcribing", url |-> "transcribing"])
        /\ (processingState = "done" /\ editedNotes = <<>> =>
                step = "ai-processing" /\ hist[hidx] = [step |-> "ai-processing", url |-> "ai-processing"])

\* C4 (as stated): on load with notes at step upload the guards leave the
\* step at editor, whatever transcription and processingState are
C4_NotesAtUploadGoToEditor ==
    (last = "guard" /\ loadStep = "upload" /\ editedNotes # <<>>) => step = "editor"

\* C5: on load without notes, transcript or active processing the guards turn
\* the steps ai-processing, editor and transcribing into upload by replacing
\* the current history entry with the upload entry, and leave upload as it is
C5_InvalidMidFlowToUpload ==
    [][ (LoadGuard /\ editedNotes = <<>> /\ transcription = <<>>
                   /\ processingState \notin Active) =>
            IF step \in {"ai-processing", "editor", "transcribing"}
            THEN /\ step' = "upload"
                 /\ hist' = [hist EXCEPT ![hidx] = [step |-> "upload", url |-> "upload"]]
                 /\ hidx' = hidx
            ELSE step' = step ]_vars

\* C5 witness: a load at step transcribing with nothing stored, corrected
C5_Witness ==
    /\ last = "guard"
    /\ loadStep = "transcribing"
    /\ editedNotes = <<>> /\ transcription = <<>> /\ processingState = "idle"
    /\ step = "upload"
    /\ hist[hidx] = [step |-> "upload", url |-> "upload"]

\* C6 (as stated): after the load guards or a handled popstate, step = editor
\* implies that notes exist
C6_EditorRequiresNotes ==
    last \in {"guard", "popstate"} => (step = "editor" => editedNotes # <<>>)

\* C7 (as stated): after the load guards or a handled popstate, a step of
\* transcribing or ai-processing implies that processing is active
C7_ProgressRequiresProcessing ==
    last \in {"guard", "popstate"} =>
        (step \in {"transcribing", "ai-processing"} => processingState \in Active)

\* C8 (as stated): once the step-to-history sync effect has run, the current
\* history entry records the store step and its fragment is the step's name
C8_SyncedEntryIsStoreStep ==
    last \in {"mountsync", "sync"} =>
        (hist[hidx].step = step /\ hist[hidx].url = step)


\* ---- C11: the load guards are total
\* C11: for every combination of notes, transcript, processing state and
\* step found on load the guard effect can run, and the step it leaves is one
\* of upload, transcribing, ai-processing, editor
C11_GuardsTotal ==
    /\ (pc = "load" => ENABLED LoadGuard)
    /\ (last = "guard" => step \in Steps)

\* C11 witness: the guards have run on a load with notes, transcript and
\* active processing at step ai-processing
C11_Witness ==
    /\ last = "guard"
    /\ loadStep = "ai-processing"
    /\ editedNotes # <<>> /\ transcription # <<>> /\ processingState \in Active
    /\ step \in Steps


\* ---- C12: the error message is cleared again
\* C12: a message that is set is eventually gone again (cleared by the timer
\* or by dismissal, or replaced by a new message), and once the message is
\* cleared and the effect has run no timer is pending
C12_ErrorEventuallyCleared ==
    /\ \A m \in ErrorMsgs : (error = m) ~> (error # m)
    /\ [](error = NoError /\ errorSeen = error => errorTimer = "none")

\* C12 witness: a message was dismissed by hand while its timer was pending,
\* and the effect has run since
C12_Witness ==
    /\ last = "dismiss"
    /\ error = NoError
    /\ errorSeen = NoError
    /\ errorTimer = "none"


\* ---- C13: the preview shows the derived title
ContentStartsH1(c) == Len(c) >= 3 /\ c[1] = "#" /\ c[2] = SP /\ c[3] # NL

\* the text d stands in a level-1 heading of h
InH1(h, d) ==
    \E i \in 1..Len(h) :
        /\ h[i] \in {"<h1>", "<h1 title>"}
        /\ i + Len(d) + 1 <= Len(h)
        /\ Sub(h, i + 1, i + Len(d)) = d
        /\ h[i + Len(d) + 1] = "</h1>"

\* C13: when the content the preview renders does not start with a level-1
\* heading the output begins with the title heading holding the derived
\* title, and in every case the derived title stands in a level-1 heading
C13_PreviewShowsTitle ==
    preview.rendered =>
        /\ (~ContentStartsH1(preview.content) =>
               /\ Len(preview.html) >= Len(preview.title) + 2
               /\ preview.html[1] = "<h1 title>"
               /\ Sub(preview.html, 2, Len(preview.title) + 1) = preview.title
               /\ preview.html[Len(preview.title) + 2] = "</h1>")
        /\ InH1(preview.html, preview.title)


\* ---- C14: list items of the preview
ListTags == {"<ul>", "</ul>", "<li>", "</li>"}
IsListTag(x) == x \in ListTags
IsMarkup(x) == x \in {"*", "<em>", "</em>", "<strong>", "</strong>"}
NotMarkup(x) == ~IsMarkup(x)
Plain(x) == SelectSeq(x, NotMarkup)

\* the list tags of h read (<ul> (<li> </li>)+ </ul>)* : st is where the
\* reader stands, "out", "ul" (list open, no item yet), "li" or "more"
RECURSIVE ListTagsNest(_, _)
ListTagsNest(f, st) ==
    IF f = <<>> THEN st = "out"
    ELSE CASE st = "out"  -> f[1] = "<ul>" /\ ListTagsNest(Tail(f), "ul")
           [] st = "ul"   -> f[1] = "<li>" /\ ListTagsNest(Tail(f), "li")
           [] st = "li"   -> f[1] = "</li>" /\ ListTagsNest(Tail(f), "more")
           [] st = "more" -> \/ f[1] = "<li>" /\ ListTagsNest(Tail(f), "li")
                             \/ f[1] = "</ul>" /\ ListTagsNest(Tail(f), "out")

First(x, tag) == Min({i \in 1..Len(x) : x[i] = tag})
Has(x, tag) == \E i \in 1..Len(x) : x[i] = tag

\* the items of one list, in order, as plain text
RECURSIVE ItemsIn(_)
ItemsIn(x) ==
    IF ~Has(x, "<li>") \/ ~Has(x, "</li>") THEN <<>>
    ELSE <<Plain(Sub(x, First(x, "<li>") + 1, First(x, "</li>") - 1))>>
            \o ItemsIn(Sub(x, First(x, "</li>") + 1, Len(x)))

\* the lists of h, in order, each as its items
RECURSIVE ListsOf(_)
ListsOf(h) ==
    IF ~Has(h, "<ul>") \/ ~Has(h, "</ul>") THEN <<>>
    ELSE <<ItemsIn(Sub(h, First(h, "<ul>") + 1, First(h, "</ul>") - 1))>>
            \o ListsOf(Sub(h, First(h, "</ul>") + 1, Len(h)))

IsItemLine(l) == Len(l) >= 3 /\ l[1] = "-" /\ l[2] = SP

\* the maximal runs of consecutive list-item lines, each as its item texts;
\* run is the run the reader is in
RECURSIVE RunsOf(_, _)
RunsOf(ls, run) ==
    IF ls = <<>> THEN (IF run = <<>> THEN <<>> ELSE <<run>>)
    ELSE IF IsItemLine(ls[1])
         THEN RunsOf(Tail(ls), Append(run, Plain(Sub(ls[1], 3, Len(ls[1])))))
         ELSE (IF run = <<>> THEN <<>> ELSE <<run>>) \o RunsOf(Tail(ls), <<>>)

\* C14: the list tags of the preview are well nested, lists holding items and
\* nothing else holding them, and the lists are, in order, the maximal runs of
\* list-item lines of the rendered content, one item per line
C14_ListRunsWrappedOnce ==
    preview.rendered =>
        /\ ListTagsNest(SelectSeq(preview.html, IsListTag), "out")
        /\ ListsOf(preview.html) = RunsOf(SplitLines(preview.content), <<>>)

\* C14 witness: a run of two items, then a line that ends it, rendered
C14_Witness ==
    /\ preview.rendered
    /\ editedNotes = <<"-", SP, "a", NL, "-", SP, "*", "b", "*", NL, "a">>
    /\ ListsOf(preview.html) = << << <<"a">>, <<"b">> >> >>


\* ---- C15: a first heading that holds a reserved word stays
\* C15: with no explicit title and no Título section, notes whose first line
\* is a level-1/2 heading holding a reserved word reach the preview and the PDF
\* generator with that heading, whatever the file is called
C15_ReservedHeadingKept ==
    LET ls == SplitLines(editedNotes)
    IN  (/\ title = <<>>
         /\ \A i \in 1..Len(ls) : ~IsTituloLine(ls[i])
         /\ IsHeading12(ls[1])
         /\ HasReserved(AfterHashes(ls[1]))) =>
            /\ (preview.rendered => preview.content = Trim(editedNotes))
            /\ (pdfCall.mode # "none" => pdfCall.content = Trim(editedNotes))


\* ---- C16: one export per accepted click
\* C16: a click the button accepts sets downloading and arms one timer; the
\* timer calls the PDF generator once and leaves downloading false and
\* downloaded true; no step arms a timer while downloading; at most one
\* timer is armed; between clicks the generator was called once; downloading
\* always ends
C16_OneExportPerClick ==
    /\ [][(~downloading /\ downloading') =>
              (Len(pendingExport') = Len(pendingExport) + 1 /\ exports' = 0)]_vars
    /\ [][(Len(pendingExport') < Len(pendingExport)) =>
              /\ pendingExport' = Tail(pendingExport)
              /\ exports' = exports + 1
              /\ pdfCall'.mode = "download"
              /\ ~downloading' /\ downloaded']_vars
    /\ [][downloading => Len(pendingExport') <= Len(pendingExport)]_vars
    /\ [](Len(pendingExport) <= 1)
    /\ [](downloading <=> pendingExport # <<>>)
    /\ [](downloading => exports = 0)
    /\ [](exports <= 1)
    /\ (downloading ~> (~downloading /\ exports = 1))

\* C16 witness: a second export has been made, after the transcript was
\* switched on, and its confirmation is showing
C16_Witness ==
    /\ ~downloading
    /\ downloaded
    /\ exports = 1
    /\ pdfCall.mode = "download"
    /\ showTranscript
    /\ pdfCall.content = transcription


\* ---- C17: the derived title is never empty
\* C17: every render shows a non-empty derived title
C17_TitleNonEmpty ==
    preview.rendered => preview.title # <<>>


\* ---- C18: a corrected load leaves no extra history entry
\* C18: when the load guard has corrected the step, the mount run of the sync
\* effect pushes nothing: the history keeps its entries, the current one
\* recording the corrected step
C18_CorrectionOnlyReplaces ==
    [][(pc = "sync" /\ pc' = "run" /\ step # loadStep) =>
          /\ hist' = hist
          /\ hidx' = hidx
          /\ hist'[hidx'].step = step]_vars

====
